---- MODULE Spec2Model ----
(***************************************************************************)
(* Model of geo_legacy_strip.py: strip_geo_legacy_file (filename grammar,  *)
(* schema selection, scratch build, publish) and the batch driver main.    *)
(* File names and paths are sequences of one-character strings, so that    *)
(* the regular expression and the path functions are computed character    *)
(* by character.  Array values are exact dyadic rationals num / ValDen.    *)
(***************************************************************************)
EXTENDS Integers, Sequences, FiniteSets, TLC

\* ------------------------------------------------------------------------
\* Bounds of the model
\* ------------------------------------------------------------------------
MaxFiles == 2   \* longest list of input paths given to main
MaxFrac == 40   \* largest fractional numerator of a quantizer input

\* ------------------------------------------------------------------------
\* Character classes of the regular expression (re, str pattern, ASCII part)
\* ------------------------------------------------------------------------
Digits == {"0","1","2","3","4","5","6","7","8","9"}

Letters ==
  {"a","b","c","d","e","f","g","h","i","j","k","l","m","n","o","p","q","r",
   "s","t","u","v","w","x","y","z","A","B","C","D","E","F","G","H","I","J",
   "K","L","M","N","O","P","Q","R","S","T","U","V","W","X","Y","Z"}

\* \w
IsWord(c) == c \in Letters \cup Digits \cup {"_"}

\* [\w\.]
IsWordOrDot(c) == IsWord(c) \/ c = "."

\* one element of the fixed-length tail of the pattern: "\\d" is \d, "ANY" is
\* the unescaped dot (any character but a newline), anything else a literal
TokMatch(tok, c) ==
  IF tok = "\\d" THEN c \in Digits
  ELSE IF tok = "ANY" THEN c # "\n"
  ELSE c = tok

\* (\d{4})-(\d{2})-(\d{2})_(\d{2})(\d{2})-(\d{2})(\d{2})_(\d{8}).(\d{6}).nc
TailPattern ==
  << "\\d","\\d","\\d","\\d", "-", "\\d","\\d", "-", "\\d","\\d", "_",
     "\\d","\\d", "\\d","\\d", "-", "\\d","\\d", "\\d","\\d", "_",
     "\\d","\\d","\\d","\\d","\\d","\\d","\\d","\\d", "ANY",
     "\\d","\\d","\\d","\\d","\\d","\\d", "ANY", "n", "c" >>

\* the literal prefix ACSPO_
PrefixPattern == <<"A","C","S","P","O","_">>

\* first offset (0-based, in the tail) of groups 4..12, and their lengths
TailGroupStart == <<0, 5, 8, 11, 13, 16, 18, 21, 30>>

TailGroupLen == <<4, 2, 2, 2, 2, 2, 2, 8, 6>>

NoMatch == [ok |-> FALSE]

\* the tail of the pattern matches s from position t on (prefix match: the
\* characters after the tail are not looked at)
TailAt(s, t) ==
  /\ t >= 1
  /\ t + Len(TailPattern) - 1 <= Len(s)
  /\ \A k \in 1..Len(TailPattern) : TokMatch(TailPattern[k], s[t + k - 1])

\* (\w+) spans s[a..b]
AllWord(s, a, b) == \A k \in a..b : IsWord(s[k])

\* ([\w\.]+) spans s[a..b]
AllWordOrDot(s, a, b) == \A k \in a..b : IsWordOrDot(s[k])

\* the splits <<e1, e2, e3>> (last positions of groups 1, 2, 3) under which
\* the whole pattern matches a prefix of s
Splits(s) ==
  LET U == {k \in 1..Len(s) : s[k] = "_"}
  IN  {sp \in U \X U \X U :
         LET e1 == sp[1] - 1
             e2 == sp[2] - 1
             e3 == sp[3] - 1
         IN  /\ Len(s) >= Len(PrefixPattern)
             /\ \A k \in 1..Len(PrefixPattern) : s[k] = PrefixPattern[k]
             /\ e1 >= Len(PrefixPattern) + 1
             /\ AllWordOrDot(s, Len(PrefixPattern) + 1, e1)
             /\ e2 >= e1 + 2
             /\ AllWord(s, e1 + 2, e2)
             /\ e3 >= e2 + 2
             /\ AllWord(s, e2 + 2, e3)
             /\ TailAt(s, e3 + 2)}

\* greedy quantifiers with backtracking: the first split tried that matches
\* has the longest group 1, then the longest group 2, then group 3
Greedy(S) ==
  CHOOSE sp \in S : \A o \in S :
    \/ sp[1] > o[1]
    \/ sp[1] = o[1] /\ sp[2] > o[2]
    \/ sp[1] = o[1] /\ sp[2] = o[2] /\ sp[3] >= o[3]

\* legacy_regex.match(name): the 12 groups and the end of the match, or no
\* match.  match() anchors at the start of the name only.
RegexMatch(s) ==
  IF Splits(s) = {} THEN NoMatch
  ELSE LET sp == Greedy(Splits(s))
           t  == sp[3] + 1
       IN  [ok |-> TRUE,
            groups |->
              [g \in 1..12 |->
                 IF g = 1 THEN SubSeq(s, Len(PrefixPattern) + 1, sp[1] - 1)
                 ELSE IF g = 2 THEN SubSeq(s, sp[1] + 1, sp[2] - 1)
                 ELSE IF g = 3 THEN SubSeq(s, sp[2] + 1, sp[3] - 1)
                 ELSE SubSeq(s, t + TailGroupStart[g - 3],
                                t + TailGroupStart[g - 3] + TailGroupLen[g - 3] - 1)],
            end |-> t + Len(TailPattern) - 1]

DigitVal(c) ==
  CASE c = "0" -> 0 [] c = "1" -> 1 [] c = "2" -> 2 [] c = "3" -> 3
    [] c = "4" -> 4 [] c = "5" -> 5 [] c = "6" -> 6 [] c = "7" -> 7
    [] c = "8" -> 8 [] c = "9" -> 9

\* int(str) of a string of decimal digits
RECURSIVE ParseInt(_)
ParseInt(ds) ==
  IF ds = <<>> THEN 0
  ELSE 10 * ParseInt(SubSeq(ds, 1, Len(ds) - 1)) + DigitVal(ds[Len(ds)])

\* ------------------------------------------------------------------------
\* os.path
\* ------------------------------------------------------------------------
\* os.path.basename(path): what follows the last "/"
RECURSIVE Basename(_)
Basename(p) ==
  IF p = <<>> THEN <<>>
  ELSE IF p[Len(p)] = "/" THEN <<>>
  ELSE Basename(SubSeq(p, 1, Len(p) - 1)) \o <<p[Len(p)]>>

\* os.path.join(a, b)
Join(a, b) ==
  IF b # <<>> /\ b[1] = "/" THEN b
  ELSE IF a = <<>> \/ a[Len(a)] = "/" THEN a \o b
  ELSE a \o <<"/">> \o b

IsPrefix(a, p) == Len(a) <= Len(p) /\ SubSeq(p, 1, Len(a)) = a

\* ------------------------------------------------------------------------
\* Schema registry (module-level tables)
\* ------------------------------------------------------------------------
default_precision_dict ==
  [latitude |-> 4, longitude |-> 4,
   satellite_zenith_angle |-> 3, solar_zenith_angle |-> 2,
   relative_azimuth_angle |-> 2, solar_azimuth_angle |-> 2,
   brightness_temp_ch7 |-> 3, brightness_temp_ch11 |-> 3,
   brightness_temp_ch13 |-> 3, brightness_temp_ch14 |-> 3,
   brightness_temp_ch15 |-> 3,
   brightness_temp_crtm_ch7 |-> 3, brightness_temp_crtm_ch11 |-> 3,
   brightness_temp_crtm_ch13 |-> 3, brightness_temp_crtm_ch14 |-> 3,
   brightness_temp_crtm_ch15 |-> 3,
   brightness_temp_crtm_ch7_sst |-> 3, brightness_temp_crtm_ch11_sst |-> 3,
   brightness_temp_crtm_ch13_sst |-> 3, brightness_temp_crtm_ch14_sst |-> 3,
   brightness_temp_crtm_ch15_sst |-> 3,
   sst_regression |-> 3, sens_regression |-> 3, sses_bias_acspo |-> 3,
   sst_reynolds |-> 3, air_temp_gfs |-> 2, u_wind_gfs |-> 2,
   v_wind_gfs |-> 2, tpw_acspo |-> 3]

default_hourly_layers ==
  << "pixel_line_number", "pixel_line_time", "ascending_descending_flag",
     "latitude", "longitude", "satellite_zenith_angle",
     "solar_zenith_angle", "relative_azimuth_angle", "solar_azimuth_angle",
     "brightness_temp_ch7", "brightness_temp_ch11", "brightness_temp_ch13",
     "brightness_temp_ch14", "brightness_temp_ch15",
     "brightness_temp_crtm_ch7", "brightness_temp_crtm_ch11",
     "brightness_temp_crtm_ch13", "brightness_temp_crtm_ch14",
     "brightness_temp_crtm_ch15",
     "brightness_temp_crtm_ch7_sst", "brightness_temp_crtm_ch11_sst",
     "brightness_temp_crtm_ch13_sst", "brightness_temp_crtm_ch14_sst",
     "brightness_temp_crtm_ch15_sst",
     "acspo_mask", "individual_clear_sky_tests_results",
     "extra_byte_clear_sky_tests_results",
     "sst_regression", "sens_regression", "sses_bias_acspo", "sst_reynolds",
     "air_temp_gfs", "u_wind_gfs", "v_wind_gfs", "tpw_acspo" >>

default_non_hourly_layers ==
  << "pixel_line_number", "pixel_line_time", "ascending_descending_flag",
     "brightness_temp_ch11", "brightness_temp_ch13", "brightness_temp_ch14",
     "brightness_temp_ch15",
     "acspo_mask", "individual_clear_sky_tests_results",
     "extra_byte_clear_sky_tests_results", "sst_regression" >>

Range(f) == {f[k] : k \in DOMAIN f}

NoDigit == -1

\* precision_dict.get(varname, None)
PrecisionGet(precision_dict, varname) ==
  IF varname \in DOMAIN precision_dict THEN precision_dict[varname] ELSE NoDigit

\* ------------------------------------------------------------------------
\* Array values and the quantizer of the container library
\* (createVariable(..., least_significant_digit=N); applied on assignment)
\* ------------------------------------------------------------------------
Pow10(n) == 10 ^ n

\* numpy.ceil(numpy.log2(pow(10., lsd)))
Bits(lsd) == CHOOSE b \in 0..30 : 2 ^ b >= Pow10(lsd) /\ (b = 0 \/ 2 ^ (b - 1) < Pow10(lsd))

MaxDigit == CHOOSE d \in Range(default_precision_dict) :
              \A e \in Range(default_precision_dict) : e <= d

\* values are num / ValDen: one binary digit finer than the finest quantum
ValDen == 2 ^ (Bits(MaxDigit) + 1)

\* numpy.around(a / b), b > 0: nearest integer, ties to the even one
RoundHalfEven(a, b) ==
  LET q == a \div b
      r == a % b
  IN  IF 2 * r < b THEN q
      ELSE IF 2 * r > b THEN q + 1
      ELSE IF q % 2 = 0 THEN q ELSE q + 1

\* numpy.around(scale * v) / scale with scale = 2 ^ Bits(lsd), on numerators
QuantizeNum_floor(m, lsd) ==
  LET g == ValDen \div (2 ^ Bits(lsd))
  IN  (m \div g) * g

QuantizeNum(m, lsd) ==
  LET g == ValDen \div (2 ^ Bits(lsd))
  IN  RoundHalfEven(m, g) * g

Num(m) == [kind |-> "num", num |-> m]

NaN == [kind |-> "nan", num |-> 0]

\* the default fill value of the datatype
Fill == [kind |-> "fill", num |-> 0]

\* in_var[:] : a masked array, masked where the stored value is the fill value
ReadArray(data) == [k \in DOMAIN data |-> [mask |-> data[k] = Fill, val |-> data[k]]]

\* data.filled(fill_value=np.nan) for float32, data.filled() otherwise
Filled(arr, datatype) ==
  [k \in DOMAIN arr |->
     IF arr[k].mask THEN (IF datatype = "f4" THEN NaN ELSE Fill)
     ELSE arr[k].val]

\* out_var[:] = data : quantized when the variable has a least significant digit
StoreArray(dense, lsd) ==
  [k \in DOMAIN dense |->
     IF lsd # NoDigit /\ dense[k].kind = "num"
     THEN Num(QuantizeNum(dense[k].num, lsd))
     ELSE dense[k]]

\* ------------------------------------------------------------------------
\* Containers
\* ------------------------------------------------------------------------
EmptyFn == <<>>

EmptyContainer == [dims |-> EmptyFn, attrs |-> EmptyFn, vars |-> EmptyFn]

\* Dataset.createDimension(name, size): size 0 (or None) makes it unlimited
CreateDimension(size) == [size |-> size, unlimited |-> (size = 0)]

\* ------------------------------------------------------------------------
\* Input files: names, paths and source containers
\* ------------------------------------------------------------------------
NameHead ==
  <<"A","C","S","P","O","_","V","2",".","7","_","H","0","8","_","A","H","I",
    "_","2","0","2","0","-","0","1","-","0","1","_">>

\* a file name with start time 10<smin>, end time 10<emin>, the character sep
\* in the place of the two dots, and trail after "nc"
FileName(smin, emin, sep, trail) ==
  NameHead \o <<"1","0">> \o smin \o <<"-">> \o <<"1","0">> \o emin
    \o <<"_","2","0","2","0","0","1","0","1">> \o <<sep>>
    \o <<"1","2","3","4","5","6">> \o <<sep>> \o <<"n","c">> \o trail

InDir == <<"i","n","/">>

GoneDir == <<"g","o","n","e","/">>

\* a value near 300 that no quantum of the precision table divides
SampleNum == 300 * ValDen + 4043

ExtraLayer == "extra_unrelated_layer"

\* the datatype a source variable is stored with
SourceType(v) == IF v \in DOMAIN default_precision_dict THEN "f4" ELSE "i2"

\* a source container with nrec records along its unlimited dimension, every
\* hourly layer but those of missing, and one layer no schema names
SourceContainer(missing, nrec) ==
  [dims  |-> [d \in {"time", "rows"} |->
                IF d = "time" THEN [size |-> nrec, unlimited |-> TRUE]
                ELSE [size |-> 3, unlimited |-> FALSE]],
   attrs |-> [a \in {"title"} |-> "ACSPO"],
   vars  |-> [v \in (Range(default_hourly_layers) \cup {ExtraLayer}) \ missing |->
                [datatype   |-> SourceType(v),
                 dimensions |-> <<"time">>,
                 attrs      |-> [a \in {"units"} |-> "1"],
                 data       |-> [k \in 1..nrec |->
                                   IF k = 1 THEN Num(SampleNum) ELSE Fill]]]]

\* the input paths main can be given; smin and emin record the start and end
\* minute the name was built with, nrec and lacks describe the file's content
Pool ==
  << [path |-> InDir \o FileName(<<"0","0">>, <<"1","0">>, ".", <<>>),
      smin |-> 0, emin |-> 10, exists |-> TRUE, nrec |-> 2, lacks |-> FALSE],
     [path |-> InDir \o FileName(<<"1","5">>, <<"0","0">>, ".", <<>>),
      smin |-> 15, emin |-> 0, exists |-> TRUE, nrec |-> 2, lacks |-> FALSE],
     [path |-> InDir \o FileName(<<"0","0">>, <<"1","0">>, "X", <<".","b","a","k">>),
      smin |-> 0, emin |-> 10, exists |-> TRUE, nrec |-> 0, lacks |-> FALSE],
     [path |-> InDir \o FileName(<<"1","5">>, <<"3","0">>, ".", <<>>),
      smin |-> 15, emin |-> 30, exists |-> TRUE, nrec |-> 2, lacks |-> TRUE],
     [path |-> InDir \o <<"n","o","t","l","e","g","a","c","y",".","n","c">>,
      smin |-> 0, emin |-> 0, exists |-> TRUE, nrec |-> 2, lacks |-> FALSE],
     [path |-> GoneDir \o FileName(<<"0","0">>, <<"1","0">>, ".", <<>>),
      smin |-> 0, emin |-> 10, exists |-> FALSE, nrec |-> 0, lacks |-> FALSE] >>

\* the layer the fourth input lacks
AbsentPool == {"pixel_line_number", "acspo_mask", "sst_regression"}

PoolIds == DOMAIN Pool

\* --compress_level
LevelPool == {-1, 0, 9, 10}

\* --output_dir ('' by default)
OutDirPool == {<<>>, <<"o","u","t">>}

\* the lists of at most MaxFiles input paths
Batches == UNION {[1..n -> PoolIds] : n \in 1..MaxFiles}

InitialFs(absent) ==
  LET E == {k \in PoolIds : Pool[k].exists}
  IN  [p \in {Pool[k].path : k \in E} |->
         LET f == Pool[CHOOSE k \in E : Pool[k].path = p]
         IN  SourceContainer(IF f.lacks THEN {absent} ELSE {}, f.nrec)]

\* ------------------------------------------------------------------------
\* Error values: the exception class, the raise site, the message
\* ------------------------------------------------------------------------
Lit(t) == [k |-> "lit", s |-> t]

Hole == [k |-> "hole"]

ArgChars(cs) == [k |-> "chars", v |-> cs]

ArgStr(t) == [k |-> "str", s |-> t]

ArgInt(n) == [k |-> "int", n |-> n]

\* str.format: each {} of the template is replaced by the next argument
RECURSIVE Format(_, _)
Format(template, args) ==
  IF template = <<>> THEN <<>>
  ELSE IF Head(template).k = "hole" /\ args # <<>>
       THEN <<Head(args)>> \o Format(Tail(template), Tail(args))
       ELSE <<Head(template)>> \o Format(Tail(template), args)

NoErr == [exc |-> "none", kind |-> "none", msg |-> <<>>]

\* raise IOError('File "{}" does not exist')
NotFoundError(name) ==
  [exc |-> "IOError", kind |-> "not_found",
   msg |-> <<Lit("File \""), Hole, Lit("\" does not exist")>>]

\* raise IOError('File "{}" is not a legacy file')
NamingError(name) ==
  [exc |-> "IOError", kind |-> "naming",
   msg |-> <<Lit("File \""), Hole, Lit("\" is not a legacy file")>>]

\* raise ValueError('Invalid commplevel={}. Must be within [0, 9]'.format(complevel))
LevelError(complevel) ==
  [exc |-> "ValueError", kind |-> "invalid_argument",
   msg |-> Format(<<Lit("Invalid commplevel="), Hole, Lit(". Must be within [0, 9]")>>,
                  <<ArgInt(complevel)>>)]

\* raise IOError('File "{}" is missing layer "{}": {}'.format(name, varname, str(e)))
MissingLayerError(name, varname) ==
  [exc |-> "IOError", kind |-> "missing_variable",
   msg |-> Format(<<Lit("File \""), Hole, Lit("\" is missing layer \""), Hole,
                    Lit("\": "), Hole>>,
                  <<ArgChars(name), ArgStr(varname), ArgStr(varname)>>)]

\* ------------------------------------------------------------------------
\* The decisions of strip_geo_legacy_file
\* ------------------------------------------------------------------------
\* complevel < 0 or complevel > 9
LevelInvalid_upto10(complevel) == complevel < 0 \/ complevel > 10

LevelInvalid(complevel) == complevel < 0 \/ complevel > 9

\* int(match[8]) == 0
IsHourly_group10(m) == ParseInt(m.groups[10]) = 0

IsHourly(m) == ParseInt(m.groups[8]) = 0

\* output_layers = hourly_layers if is_hourly else non_hourly_layers
SelectLayers_swapped(hourly, hourly_layers, non_hourly_layers) ==
  IF hourly THEN non_hourly_layers ELSE hourly_layers

SelectLayers(hourly, hourly_layers, non_hourly_layers) ==
  IF hourly THEN hourly_layers ELSE non_hourly_layers

\* the directory tempfile.TemporaryDirectory() makes: no input lives there
TmpDirName == <<"t","m","p","/","d">>

NoDir == <<>>

\* tmp_path = os.path.join(tmp_dir, name)
TmpPath_inplace(dir, name) == Join(InDir, name)

TmpPath(dir, name) == Join(dir, name)

\* out_path = os.path.join(output_dir, name) if output_dir else path
TargetPath(path, output_dir, name) ==
  IF output_dir # <<>> THEN Join(output_dir, name) ELSE path

\* createVariable, the attribute copy and out_var[:] = data for one layer
Transcode(in_var, lsd) ==
  [datatype   |-> in_var.datatype,
   dimensions |-> in_var.dimensions,
   attrs      |-> in_var.attrs,
   data       |-> StoreArray(Filled(ReadArray(in_var.data), in_var.datatype), lsd)]

\* the file system without the files below dir
Without(f, dir) == [p \in {q \in DOMAIN f : ~IsPrefix(dir, q)} |-> f[p]]

\* ------------------------------------------------------------------------
\* State
\* ------------------------------------------------------------------------
VARIABLES
  files,          \* main: args.files, as indices into Pool
  complevel,      \* main: args.compress_level
  output_dir,     \* main: args.output_dir
  mpc,            \* main: "loop", "call", "done", "aborted"
  i,              \* main: position of the for loop in files
  attempted,      \* positions of files strip_geo_legacy_file was called for
  fs,             \* the file system: path -> container
  fs_pre,         \* the file system when the current call started
  pc,             \* strip_geo_legacy_file: position in the function
  path,           \* its argument
  name,
  match,
  is_hourly,
  output_layers,
  tmp_dir,
  tmp_open,       \* ncf_tmp is open
  varidx,         \* position of the for loop in output_layers
  out_path,
  err,            \* the exception raised by the call
  log,            \* file system operations of the current call, in order
  qv,             \* quantizer check: the value written
  qlsd,           \* quantizer check: least significant digit (NoDigit: none)
  qres,           \* quantizer check: the array stored
  qpc             \* quantizer check: "start", "done"

mainvars == <<files, complevel, output_dir, mpc, i, attempted>>

stripvars == <<pc, path, name, match, is_hourly, output_layers, tmp_dir,
               tmp_open, varidx, out_path, err, log>>

qvars == <<qv, qlsd, qres, qpc>>

vars == <<mainvars, fs, fs_pre, stripvars, qvars>>

\* the locals of strip_geo_legacy_file before a call
StripIdle ==
  /\ pc = "idle"
  /\ path = <<>>
  /\ name = <<>>
  /\ match = NoMatch
  /\ is_hourly = FALSE
  /\ output_layers = <<>>
  /\ tmp_dir = NoDir
  /\ tmp_open = FALSE
  /\ varidx = 0
  /\ out_path = <<>>
  /\ err = NoErr
  /\ log = <<>>

QIdle == qv = 0 /\ qlsd = NoDigit /\ qres = <<>> /\ qpc = "done"

Init ==
  /\ files \in Batches
  /\ complevel \in LevelPool
  /\ output_dir \in OutDirPool
  /\ mpc = "loop"
  /\ i = 1
  /\ attempted = {}
  /\ \E absent \in AbsentPool : fs = InitialFs(absent)
  /\ fs_pre = fs
  /\ StripIdle
  /\ QIdle

\* ------------------------------------------------------------------------
\* main
\* ------------------------------------------------------------------------
\* for path in files: strip_geo_legacy_file(path, complevel=..., output_dir=...)
\* up to name = os.path.basename(path)
MainCall ==
  /\ mpc = "loop"
  /\ i <= Len(files)
  /\ mpc' = "call"
  /\ attempted' = attempted \cup {i}
  /\ fs_pre' = fs
  /\ path' = Pool[files[i]].path
  /\ name' = Basename(path')
  /\ pc' = "isfile"
  /\ match' = NoMatch
  /\ is_hourly' = FALSE
  /\ output_layers' = <<>>
  /\ varidx' = 0
  /\ out_path' = <<>>
  /\ err' = NoErr
  /\ log' = <<>>
  /\ UNCHANGED <<files, complevel, output_dir, i, fs, tmp_dir, tmp_open, qvars>>

\* the call returned: next path
MainNextFile ==
  /\ mpc = "call"
  /\ pc = "return"
  /\ mpc' = "loop"
  /\ i' = i + 1
  /\ pc' = "idle"
  /\ UNCHANGED <<files, complevel, output_dir, attempted, fs, fs_pre, path, name,
                 match, is_hourly, output_layers, tmp_dir, tmp_open, varidx,
                 out_path, err, log, qvars>>

\* the call raised: nothing in main catches it
MainAbort ==
  /\ mpc = "call"
  /\ pc = "raised"
  /\ mpc' = "aborted"
  /\ UNCHANGED <<files, complevel, output_dir, i, attempted, fs, fs_pre,
                 stripvars, qvars>>

\* the list is exhausted: return 0
MainDone ==
  /\ mpc = "loop"
  /\ i > Len(files)
  /\ mpc' = "done"
  /\ UNCHANGED <<files, complevel, output_dir, i, attempted, fs, fs_pre,
                 stripvars, qvars>>

\* ------------------------------------------------------------------------
\* strip_geo_legacy_file
\* ------------------------------------------------------------------------
\* if not os.path.isfile(path): raise IOError(...)
StripIsFile ==
  /\ pc = "isfile"
  /\ log' = Append(log, "isfile")
  /\ IF path \in DOMAIN fs
       THEN pc' = "match" /\ err' = err
       ELSE pc' = "raised" /\ err' = NotFoundError(name)
  /\ UNCHANGED <<mainvars, fs, fs_pre, path, name, match, is_hourly,
                 output_layers, tmp_dir, tmp_open, varidx, out_path, qvars>>

\* match = legacy_regex.match(name); if not match: raise IOError(...)
StripMatch ==
  /\ pc = "match"
  /\ match' = RegexMatch(name)
  /\ IF match'.ok
       THEN pc' = "level" /\ err' = err
       ELSE pc' = "raised" /\ err' = NamingError(name)
  /\ UNCHANGED <<mainvars, fs, fs_pre, path, name, is_hourly, output_layers,
                 tmp_dir, tmp_open, varidx, out_path, log, qvars>>

\* if complevel < 0 or complevel > 9: raise ValueError(...)
StripLevel ==
  /\ pc = "level"
  /\ IF LevelInvalid(complevel)
       THEN pc' = "raised" /\ err' = LevelError(complevel)
       ELSE pc' = "select" /\ err' = err
  /\ UNCHANGED <<mainvars, fs, fs_pre, path, name, match, is_hourly,
                 output_layers, tmp_dir, tmp_open, varidx, out_path, log, qvars>>

\* is_hourly = int(match[8]) == 0, then the choice of output_layers
StripSelect ==
  /\ pc = "select"
  /\ is_hourly' = IsHourly(match)
  /\ output_layers' = SelectLayers(is_hourly', default_hourly_layers,
                                   default_non_hourly_layers)
  /\ pc' = "mktmp"
  /\ UNCHANGED <<mainvars, fs, fs_pre, path, name, match, tmp_dir, tmp_open,
                 varidx, out_path, err, log, qvars>>

\* with tempfile.TemporaryDirectory() as tmp_dir
StripMkTmp ==
  /\ pc = "mktmp"
  /\ tmp_dir' = TmpDirName
  /\ log' = Append(log, "mkdtemp")
  /\ pc' = "open"
  /\ UNCHANGED <<mainvars, fs, fs_pre, path, name, match, is_hourly,
                 output_layers, tmp_open, varidx, out_path, err, qvars>>

\* with netCDF4.Dataset(tmp_path, 'w') as ncf_tmp, netCDF4.Dataset(path, 'r') as ncf_in
StripOpen ==
  /\ pc = "open"
  /\ fs' = (TmpPath(tmp_dir, name) :> EmptyContainer) @@ fs
  /\ tmp_open' = TRUE
  /\ log' = log \o <<"create", "open">>
  /\ pc' = "dims"
  /\ UNCHANGED <<mainvars, fs_pre, path, name, match, is_hourly, output_layers,
                 tmp_dir, varidx, out_path, err, qvars>>

\* for dim_name, dim in dims.items(): ncf_tmp.createDimension(dim.name, size=dim.size)
StripDims ==
  /\ pc = "dims"
  /\ LET dims == fs[path].dims
     IN  fs' = [fs EXCEPT ![TmpPath(tmp_dir, name)].dims =
                  [d \in DOMAIN dims |-> CreateDimension(dims[d].size)]]
  /\ pc' = "attrs"
  /\ UNCHANGED <<mainvars, fs_pre, path, name, match, is_hourly, output_layers,
                 tmp_dir, tmp_open, varidx, out_path, err, log, qvars>>

\* for att_name in ncf_in.ncattrs(): ncf_tmp.setncattr(...)
StripAttrs ==
  /\ pc = "attrs"
  /\ fs' = [fs EXCEPT ![TmpPath(tmp_dir, name)].attrs = fs[path].attrs]
  /\ pc' = "vars"
  /\ varidx' = 1
  /\ UNCHANGED <<mainvars, fs_pre, path, name, match, is_hourly, output_layers,
                 tmp_dir, tmp_open, out_path, err, log, qvars>>

\* one iteration of: for varname in output_layers
StripVar ==
  /\ pc = "vars"
  /\ varidx <= Len(output_layers)
  /\ LET varname == output_layers[varidx]
         ncf_in  == fs[path]
     IN  IF varname \in DOMAIN ncf_in.vars
           THEN /\ fs' = [fs EXCEPT ![TmpPath(tmp_dir, name)].vars =
                            (varname :> Transcode(ncf_in.vars[varname],
                                          PrecisionGet(default_precision_dict, varname)))
                            @@ @]
                /\ varidx' = varidx + 1
                /\ pc' = "vars"
                /\ err' = err
           ELSE /\ err' = MissingLayerError(name, varname)
                /\ pc' = "unwind"
                /\ UNCHANGED <<fs, varidx>>
  /\ UNCHANGED <<mainvars, fs_pre, path, name, match, is_hourly, output_layers,
                 tmp_dir, tmp_open, out_path, log, qvars>>

\* the loop is over: the datasets are closed
StripClose ==
  /\ pc = "vars"
  /\ varidx > Len(output_layers)
  /\ tmp_open' = FALSE
  /\ pc' = "copy"
  /\ UNCHANGED <<mainvars, fs, fs_pre, path, name, match, is_hourly,
                 output_layers, tmp_dir, varidx, out_path, err, log, qvars>>

\* out_path = ...; shutil.copy2(tmp_path, out_path)
StripPublish ==
  /\ pc = "copy"
  /\ out_path' = TargetPath(path, output_dir, name)
  /\ fs' = (out_path' :> fs[TmpPath(tmp_dir, name)]) @@ fs
  /\ log' = Append(log, "copy2")
  /\ pc' = "cleanup"
  /\ UNCHANGED <<mainvars, fs_pre, path, name, match, is_hourly, output_layers,
                 tmp_dir, tmp_open, varidx, err, qvars>>

\* the temporary directory is removed; return
StripCleanup ==
  /\ pc = "cleanup"
  /\ fs' = Without(fs, tmp_dir)
  /\ tmp_dir' = NoDir
  /\ log' = Append(log, "rmtree")
  /\ pc' = "return"
  /\ UNCHANGED <<mainvars, fs_pre, path, name, match, is_hourly, output_layers,
                 tmp_open, varidx, out_path, err, qvars>>

\* an exception leaves the with blocks: the datasets are closed, the temporary
\* directory is removed, the exception goes on to the caller
StripUnwind ==
  /\ pc = "unwind"
  /\ tmp_open' = FALSE
  /\ fs' = Without(fs, tmp_dir)
  /\ tmp_dir' = NoDir
  /\ log' = Append(log, "rmtree")
  /\ pc' = "raised"
  /\ UNCHANGED <<mainvars, fs_pre, path, name, match, is_hourly, output_layers,
                 varidx, out_path, err, qvars>>

Next ==
  \/ MainCall
  \/ MainNextFile
  \/ MainAbort
  \/ MainDone
  \/ StripIsFile
  \/ StripMatch
  \/ StripLevel
  \/ StripSelect
  \/ StripMkTmp
  \/ StripOpen
  \/ StripDims
  \/ StripAttrs
  \/ StripVar
  \/ StripClose
  \/ StripPublish
  \/ StripCleanup
  \/ StripUnwind

Spec == Init /\ [][Next]_vars

\* ------------------------------------------------------------------------
\* The transcoder on one variable, over a range of values and precisions
\* ------------------------------------------------------------------------
QWholes == {0, 1, 299}

QFracs == {k : k \in 0..MaxFrac} \cup {8 * k : k \in 0..MaxFrac}

QInputs == {sg * (w * ValDen + f) : sg \in {-1, 1}, w \in QWholes, f \in QFracs}

QInit ==
  /\ files = <<>>
  /\ complevel = 5
  /\ output_dir = <<>>
  /\ mpc = "done"
  /\ i = 1
  /\ attempted = {}
  /\ fs = EmptyFn
  /\ fs_pre = fs
  /\ StripIdle
  /\ qv \in QInputs
  /\ qlsd \in Range(default_precision_dict) \cup {NoDigit}
  /\ qres = <<>>
  /\ qpc = "start"

\* a float32 variable holding <<qv, masked>> is transcoded with qlsd
QTranscode ==
  /\ qpc = "start"
  /\ qres' = Transcode([datatype |-> "f4", dimensions |-> <<"time">>,
                        attrs |-> EmptyFn, data |-> <<Num(qv), Fill>>], qlsd).data
  /\ qpc' = "done"
  /\ UNCHANGED <<mainvars, fs, fs_pre, stripvars, qv, qlsd>>

QNext == QTranscode

SpecQ == QInit /\ [][QNext]_vars

\* ------------------------------------------------------------------------
\* Properties
\* ------------------------------------------------------------------------
Abs(x) == IF x < 0 THEN -x ELSE x

\* the name matched is exactly one name of the grammar: the match spans the
\* whole name and the two separators before the suffix and before nc are dots
Conforms ==
  /\ match.ok
  /\ match.end = Len(name)
  /\ name[match.end - 2] = "."
  /\ name[match.end - 9] = "."

\* the call in progress has chosen its schema
Selected == pc # "idle" /\ output_layers # <<>>

\* the file system outside the temporary directory
Ext(f) == Without(f, TmpDirName)

\* C1 (as amended): for a name of the grammar, the hourly schema is selected
\* if and only if the START-time minute of the name is 00, whatever the
\* end-time minute is.
C1_StartMinuteSelects ==
  (Selected /\ Conforms) =>
     ((output_layers = default_hourly_layers) <=> (Pool[files[i]].smin = 0))

C1_Witness ==
  /\ pc = "return"
  /\ Conforms
  /\ Pool[files[i]].smin # 0
  /\ Pool[files[i]].emin = 0
  /\ output_layers = default_non_hourly_layers

\* C1 (as stated): the hourly schema is selected if and only if the END-time
\* minute of the name is 00.
C1_EndMinuteSelects ==
  (Selected /\ Conforms) =>
     ((output_layers = default_hourly_layers) <=> (Pool[files[i]].emin = 0))

\* C2: a name that is not exactly one name of the grammar fails with the
\* naming error and never reaches the range check, the schema selection or a
\* build step.
C2_OnlyWholeNamesAccepted ==
  (pc \notin {"idle", "isfile", "match"} /\ err.kind # "not_found"
     /\ ~Conforms)
    => (pc = "raised" /\ err.kind = "naming")

\* C3: the file system outside the scratch directory changes only in the one
\* copy step, only at the target path, only once, and only when the scratch
\* container is closed and holds every dimension, global attribute and schema
\* layer; a call that raises leaves it as it was before the call.
C3_PublishOnceAfterBuild ==
  [][/\ (Ext(fs') # Ext(fs)) =>
          /\ pc = "copy" /\ pc' = "cleanup"
          /\ ~tmp_open
          /\ "copy2" \notin Range(log)
          /\ LET built == fs[Join(TmpDirName, name)]
                 target == TargetPath(path, output_dir, name)
             IN  /\ DOMAIN built.dims = DOMAIN fs[path].dims
                 /\ built.attrs = fs[path].attrs
                 /\ DOMAIN built.vars = Range(output_layers)
                 /\ \A p \in (DOMAIN Ext(fs) \cup DOMAIN Ext(fs')) \ {target} :
                      p \in DOMAIN fs /\ p \in DOMAIN fs' /\ fs'[p] = fs[p]
     /\ (pc' = "raised") => (Ext(fs') = Ext(fs_pre'))
    ]_vars

C3_Witness ==
  /\ pc = "raised"
  /\ err.kind = "missing_variable"
  /\ varidx > 1
  /\ Ext(fs) = Ext(fs_pre)
  /\ output_dir # <<>>
  /\ TargetPath(path, output_dir, name) \notin DOMAIN fs

\* C4: after a successful call the published container holds exactly the
\* layers of the schema of the file's cadence, whatever else the source holds.
C4_ExactlySchemaLayers ==
  (pc = "return") =>
     DOMAIN fs[out_path].vars =
       Range(IF is_hourly THEN default_hourly_layers ELSE default_non_hourly_layers)

C4_Witness ==
  /\ pc = "return"
  /\ ExtraLayer \in DOMAIN fs_pre[path].vars
  /\ ExtraLayer \notin DOMAIN fs[out_path].vars
  /\ is_hourly

\* C5: with a compression level outside [0,9] the call makes no scratch
\* directory, no scratch file and no output file, and leaves every file,
\* the input and the target among them, as it was.
C5_BadLevelTouchesNothing ==
  (complevel < 0 \/ complevel > 9) =>
     /\ tmp_dir = NoDir
     /\ ~tmp_open
     /\ Range(log) \subseteq {"isfile"}
     /\ fs = fs_pre
     /\ pc \in {"idle", "isfile", "match", "level", "raised"}

C5_Witness ==
  /\ (complevel < 0 \/ complevel > 9)
  /\ pc = "raised"
  /\ err.kind = "invalid_argument"
  /\ fs = fs_pre

\* C6: when main ends, strip_geo_legacy_file has been called for every path
\* of the list, also for those after a path that failed.
C6_BatchContinues ==
  (mpc \in {"done", "aborted"}) => (attempted = 1..Len(files))

\* C7: after a successful call every dimension of the source is in the output
\* with the same size and the same unlimited marker.
C7_DimensionsPreserved ==
  (pc = "return") =>
     \A d \in DOMAIN fs_pre[path].dims :
        /\ d \in DOMAIN fs[out_path].dims
        /\ fs[out_path].dims[d] = fs_pre[path].dims[d]

HasChars(msg, cs) == \E j \in DOMAIN msg : msg[j].k = "chars" /\ msg[j].v = cs

HasStr(msg, t) == \E j \in DOMAIN msg : msg[j].k = "str" /\ msg[j].s = t

\* C8: the message of every error of a call names the file, and that of the
\* missing-variable error names the variable too.
C8_ErrorsNameTheFile ==
  (pc = "raised" /\ err.kind \in {"not_found", "naming", "missing_variable"}) =>
     /\ HasChars(err.msg, name)
     /\ (err.kind = "missing_variable") => HasStr(err.msg, output_layers[varidx])

\* C10: a call with a compression level outside [0,9] ends with the
\* invalid-argument error, and no file system operation precedes it.
C10_LevelCheckedFirst ==
  (pc = "raised" /\ (complevel < 0 \/ complevel > 9)) =>
     (err.kind = "invalid_argument" /\ log = <<>>)

\* the k >= 1 with 10^(-k) <= a / ValDen < 10^(1-k), for 0 < a < ValDen
RECURSIVE NegExp(_)
NegExp(a) == IF 10 * a >= ValDen THEN 1 ELSE 1 + NegExp(10 * a)

\* the decimal exponent e of a / ValDen: 10^e <= a / ValDen < 10^(e+1), a > 0
DecExp(a) ==
  IF a >= ValDen
    THEN CHOOSE e \in 0..4 : Pow10(e) * ValDen <= a /\ a < Pow10(e + 1) * ValDen
    ELSE 0 - NegExp(a)

\* m / ValDen rounded to n significant decimal digits, as <<sign, exponent,
\* digits>> with 10^(n-1) <= digits < 10^n
SigRound(m, n) ==
  IF m = 0 THEN <<0, 0, 0>>
  ELSE LET a == Abs(m)
           e == DecExp(a)
           r == IF e - n + 1 >= 0
                  THEN RoundHalfEven(a, ValDen * Pow10(e - n + 1))
                  ELSE RoundHalfEven(a * Pow10(n - 1 - e), ValDen)
           sg == IF m < 0 THEN -1 ELSE 1
       IN  IF r = Pow10(n) THEN <<sg, e + 1, Pow10(n - 1)>> ELSE <<sg, e, r>>

====
